---- MODULE Spec2Model ----
(***************************************************************************)
(* Model of the loan performance dashboard of src/CE.py: the cleaning of   *)
(* the table load_data returns (clean_numeric_column, the preprocessing in *)
(* main), the grouped summaries of the three views, and the navigation     *)
(* state kept in st.session_state and driven by the buttons and the        *)
(* sidebar filters.                                                        *)
(*                                                                         *)
(* A number of the table is a decimal [m, e], the value m / 10^e, which    *)
(* stands for the float64 nearest to it; a numeric value of the table is   *)
(* <<>> (NaN / NaT) or <<number>>.  A float64 that is computed is          *)
(* [sg, m, x], the value sg * m * 2^x.  Text that the code edits character *)
(* by character is a tuple of characters; text that the code only          *)
(* compares is a string.                                                   *)
(*                                                                         *)
(* The libraries are taken as follows: \d of Python's re with the decimal  *)
(* digits of Unicode 14; the grouped 'sum' of pandas with Kahan's          *)
(* compensation (pandas 1.3 and later); Series.sum() as numpy's pairwise   *)
(* sum; round(2) as numpy's rint(x * 100) / 100 on float64.                *)
(***************************************************************************)
EXTENDS Integers, Sequences, FiniteSets, TLC

\* Largest number of rows of the sheet.
MaxRows == 2

\* The missing value of an object column (pandas NaN) and Python's None.
NaN == "<NaN>"
None == "<None>"

\* A raw cell of the sheet: text, an int, a float (m / 10^e), or missing.
StrCell(s) == [t |-> "str", s |-> s, m |-> 0, e |-> 0]
IntCell(n) == [t |-> "int", s |-> <<>>, m |-> n, e |-> 0]
FloatCell(m, e) == [t |-> "float", s |-> <<>>, m |-> m, e |-> e]
NanCell == [t |-> "nan", s |-> <<>>, m |-> 0, e |-> 0]

-----------------------------------------------------------------------------
(* Decimals: a number is [m, e], the value m / 10^e, with e as small as    *)
(* possible.  This is the decimal a float64 of the program stands for.     *)

RECURSIVE Pow10(_)
Pow10(k) == IF k = 0 THEN 1 ELSE 10 * Pow10(k - 1)

RECURSIVE Dec(_, _)
Dec(m, e) ==
    IF m = 0 THEN [m |-> 0, e |-> 0]
    ELSE IF e > 0 /\ m % 10 = 0 THEN Dec(m \div 10, e - 1)
    ELSE [m |-> m, e |-> e]

DecAdd(a, b) ==
    LET e == IF a.e > b.e THEN a.e ELSE b.e
    IN  Dec(a.m * Pow10(e - a.e) + b.m * Pow10(e - b.e), e)

Abs(n) == IF n < 0 THEN -n ELSE n

-----------------------------------------------------------------------------
(* Text: a character is a one-character string, or "#" and its code point *)
(* for a character outside ASCII ("#1635" is U+0663).                     *)

Digits == <<"0", "1", "2", "3", "4", "5", "6", "7", "8", "9">>

IsAsciiDigit(c) == c \in {Digits[d] : d \in 1..10}

\* The code points of the zeros of the decimal digits outside ASCII
\* (category Nd, Unicode 14); each is followed by its 1 to 9.
DecimalDigitZeros ==
    {1632, 1776, 1984, 2406, 2534, 2662, 2790, 2918, 3046, 3174, 3302,
     3430, 3558, 3664, 3792, 3872, 4160, 4240, 6112, 6160, 6470, 6608,
     6784, 6800, 6992, 7088, 7232, 7248, 42528, 43216, 43264, 43472,
     43504, 43600, 44016, 65296, 66720, 68912, 69734, 69872, 69942,
     70096, 70384, 70736, 70864, 71248, 71360, 71472, 71904, 72016,
     72784, 73040, 73120, 92768, 92864, 93008, 120782, 120792, 120802,
     120812, 120822, 123200, 123632, 125264, 130032}

\* \d of a str pattern: every decimal digit of Unicode.
IsDigit(c) ==
    \/ IsAsciiDigit(c)
    \/ c \in {"#" \o ToString(z + d) : z \in DecimalDigitZeros, d \in 0..9}

DigitVal(c) == (CHOOSE d \in 1..10 : Digits[d] = c) - 1

RECURSIVE NatToChars(_)
NatToChars(n) ==
    IF n < 10 THEN <<Digits[n + 1]>>
    ELSE NatToChars(n \div 10) \o <<Digits[(n % 10) + 1]>>

RECURSIVE DigitsValue(_)
DigitsValue(s) ==
    IF s = <<>> THEN 0
    ELSE 10 * DigitsValue(SubSeq(s, 1, Len(s) - 1)) + DigitVal(s[Len(s)])

\* The digits of n, with zeros in front up to the width.
RECURSIVE PadChars(_, _)
PadChars(n, width) ==
    IF Len(NatToChars(n)) >= width THEN NatToChars(n)
    ELSE <<"0">> \o (IF width = 1 THEN <<>> ELSE PadChars(n, width - 1))

\* str() of a float m / 10^e: its shortest decimal, with '.0' for a whole
\* number and the exponent form below 0.0001.
FloatToChars(m, e) ==
    LET d == Dec(m, e)
        a == Abs(d.m)
        k == Len(NatToChars(a))
        sign == IF d.m < 0 THEN <<"-">> ELSE <<>>
        body ==
            IF d.e = 0 THEN NatToChars(a) \o <<".", "0">>
            ELSE IF d.e - k + 1 > 4
            THEN <<Head(NatToChars(a))>>
                 \o (IF k > 1 THEN <<".">> \o Tail(NatToChars(a)) ELSE <<>>)
                 \o <<"e", "-">> \o PadChars(d.e - k + 1, 2)
            ELSE NatToChars(a \div Pow10(d.e)) \o <<".">>
                 \o PadChars(a % Pow10(d.e), d.e)
    IN  sign \o body

\* series.astype(str) on one cell of an object column.
AsStr(cell) ==
    IF cell.t = "str" THEN cell.s
    ELSE IF cell.t = "int"
    THEN (IF cell.m < 0 THEN <<"-">> ELSE <<>>) \o NatToChars(Abs(cell.m))
    ELSE IF cell.t = "float" THEN FloatToChars(cell.m, cell.e)
    ELSE <<"n", "a", "n">>

\* str.replace(r'[^\d.-]', '', regex=True) on one value.
StripNonNumeric(s) == SelectSeq(s, LAMBDA c : IsDigit(c) \/ c = "." \/ c = "-")

\* pd.to_numeric(errors='coerce') on text made of digits, '.' and '-':
\* an optional sign, ASCII digits with at most one point, at least one
\* digit; anything else, a digit outside ASCII included, is NaN.
ToNumeric(s) ==
    LET neg == s # <<>> /\ s[1] = "-"
        u == IF neg THEN SubSeq(s, 2, Len(s)) ELSE s
        dots == {i \in 1..Len(u) : u[i] = "."}
        p == IF dots = {} THEN Len(u) + 1 ELSE CHOOSE i \in dots : TRUE
        ip == SubSeq(u, 1, p - 1)
        fp == SubSeq(u, p + 1, Len(u))
        ok == /\ Cardinality(dots) <= 1
              /\ \A i \in 1..Len(u) : IsAsciiDigit(u[i]) \/ u[i] = "."
              /\ Len(ip) + Len(fp) >= 1
        v == DigitsValue(ip \o fp)
    IN  IF ok THEN <<Dec(IF neg THEN -v ELSE v, Len(fp))>> ELSE <<>>

\* clean_numeric_column: an object column (one holding any text) is turned
\* to text, stripped and parsed; a numeric column is returned as it is.
clean_numeric_column(series) ==
    IF \E i \in 1..Len(series) : series[i].t = "str"
    THEN [i \in 1..Len(series) |-> ToNumeric(StripNonNumeric(AsStr(series[i])))]
    ELSE [i \in 1..Len(series) |->
            IF series[i].t = "nan" THEN <<>>
            ELSE <<Dec(series[i].m, series[i].e)>>]

-----------------------------------------------------------------------------
(* Dates *)

MonthNames == <<"January", "February", "March", "April", "May", "June", "July",
                "August", "September", "October", "November", "December">>

\* .dt.strftime('%B %Y') on a value of the Date column, <<year, month, day>>
\* or <<>> for NaT: NaT gives NaN.
MonthLabel(dt) ==
    IF dt = <<>> THEN NaN ELSE MonthNames[dt[2]] \o " " \o ToString(dt[1])

\* Series.fillna(value) on one value.
fillna(v, value) == IF v = NaN THEN value ELSE v

-----------------------------------------------------------------------------
(* The table *)

\* A row of the table load_data returns: Date is a value of the column
\* pd.to_datetime(errors='coerce') made, <<year, month, day>> or <<>> for a
\* cell it did not read as a date (NaT); AMOUNT_IN_USD is the sheet's cell;
\* the other columns are strings or NaN.
\* main, lines 89-103: numeric cleaning, the MONTH label, the three fills.
\* PRODUCT_TYPE is not filled.
Preprocess(df0) ==
    LET amount == clean_numeric_column([i \in 1..Len(df0) |-> df0[i].AMOUNT_IN_USD])
    IN  [i \in 1..Len(df0) |->
            [Date |-> df0[i].Date,
             MONTH |-> MonthLabel(df0[i].Date),
             AMOUNT_IN_USD |-> amount[i],
             Quarter |-> fillna(df0[i].Quarter, "Unknown"),
             Branch_Outlet |-> fillna(df0[i].Branch_Outlet, "Unknown"),
             RM_Name |-> fillna(df0[i].RM_Name, "Unknown"),
             PRODUCT_TYPE |-> df0[i].PRODUCT_TYPE]]

\* Python's order of the strings the model uses (sorted(), Series.mode()).
Collation == <<"", "Business", "Personal", "Q1", "Q2", "Unknown">>

Rank(s) == CHOOSE i \in 1..Len(Collation) : Collation[i] = s

\* sorted(values)[0]
SortedFirst(values) == CHOOSE v \in values : \A w \in values : Rank(v) <= Rank(w)

\* The options of the two select boxes, lines 109 and 113.
Quarters(df) == {df[i].Quarter : i \in 1..Len(df)}

ProductTypes(df) == {"All"} \cup ({df[i].PRODUCT_TYPE : i \in 1..Len(df)} \ {NaN})

\* == on an object column: NaN equals nothing.
Eq(a, b) == a # NaN /\ a = b

\* main, lines 117-119.
ApplyFilters(df, quarter, product) ==
    SelectSeq(df, LAMBDA r : /\ Eq(r.Quarter, quarter)
                              /\ (product # "All" => Eq(r.PRODUCT_TYPE, product)))

-----------------------------------------------------------------------------
(* float64 arithmetic, for the sum of a column and for the group sums     *)
(* that lie halfway between two hundredths.  A natural is the sequence of *)
(* its digits to the base 2^15, the least significant first and the last  *)
(* one not 0; a float is [sg, m, x], the value sg * m * 2^x, with m of at *)
(* most 53 bits.                                                          *)

RECURSIVE Pow2(_)
Pow2(k) == IF k = 0 THEN 1 ELSE 2 * Pow2(k - 1)

Base == Pow2(15)

Min(a, b) == IF a < b THEN a ELSE b

Zeros(k) == [i \in 1..k |-> 0]

Reverse(s) == [i \in 1..Len(s) |-> s[Len(s) - i + 1]]

\* a without the zeros at its end.
LTrim(a) ==
    IF \A i \in 1..Len(a) : a[i] = 0 THEN <<>>
    ELSE SubSeq(a, 1, CHOOSE i \in 1..Len(a) :
                        a[i] # 0 /\ \A j \in (i + 1)..Len(a) : a[j] = 0)

RECURSIVE NatL(_)
NatL(n) == IF n = 0 THEN <<>> ELSE <<n % Base>> \o NatL(n \div Base)

RECURSIVE LNat(_)
LNat(a) == IF a = <<>> THEN 0 ELSE Head(a) + Base * LNat(Tail(a))

\* The digit of a at place i, 0 beyond its end.
At(a, i) == IF i <= Len(a) THEN a[i] ELSE 0

\* a + b + c, from place i on
RECURSIVE LAddFrom(_, _, _, _)
LAddFrom(a, b, c, i) ==
    IF i > Len(a) /\ i > Len(b) THEN (IF c = 0 THEN <<>> ELSE <<c>>)
    ELSE <<(At(a, i) + At(b, i) + c) % Base>>
         \o LAddFrom(a, b, (At(a, i) + At(b, i) + c) \div Base, i + 1)

LAdd(a, b) == LAddFrom(a, b, 0, 1)

\* a - b - c, from place i on, for a >= b
RECURSIVE LSubFrom(_, _, _, _)
LSubFrom(a, b, c, i) ==
    IF i > Len(a) THEN <<>>
    ELSE <<(a[i] - At(b, i) - c + Base) % Base>>
         \o LSubFrom(a, b, IF a[i] - At(b, i) - c < 0 THEN 1 ELSE 0, i + 1)

LSub(a, b) == LTrim(LSubFrom(a, b, 0, 1))

LLess(a, b) ==
    \/ Len(a) < Len(b)
    \/ /\ Len(a) = Len(b)
       /\ \E i \in 1..Len(a) :
            a[i] < b[i] /\ \A j \in (i + 1)..Len(a) : a[j] = b[j]

\* a * k + c, from place i on, for k <= 2^15
RECURSIVE LMulFrom(_, _, _, _)
LMulFrom(a, k, c, i) ==
    IF i > Len(a) THEN (IF c = 0 THEN <<>> ELSE <<c>>)
    ELSE <<(a[i] * k + c) % Base>> \o LMulFrom(a, k, (a[i] * k + c) \div Base, i + 1)

\* a * 2^k
Shl(a, k) ==
    IF a = <<>> THEN a ELSE Zeros(k \div 15) \o LMulFrom(a, Pow2(k % 15), 0, 1)

\* a \div 2^k
Shr(a, k) ==
    LTrim([i \in 1..(Len(a) - (k \div 15)) |->
            (a[i + (k \div 15)] \div Pow2(k % 15))
            + (At(a, i + (k \div 15) + 1) % Pow2(k % 15)) * Pow2(15 - (k % 15))])

\* The number of bits of a.
LBits(a) ==
    IF a = <<>> THEN 0
    ELSE 15 * (Len(a) - 1)
         + (CHOOSE w \in 1..15 : Pow2(w - 1) <= a[Len(a)] /\ a[Len(a)] < Pow2(w))

\* Whether a / 2^k, of whole part q and the rest given, is nearer to q + 1,
\* or halfway with q odd.
RoundsUp(q, rest, half) ==
    LLess(half, rest) \/ (rest = half /\ q # <<>> /\ q[1] % 2 = 1)

RoundedTo(q, a, k) ==
    IF RoundsUp(q, LSub(a, Shl(q, k)), Shl(<<1>>, k - 1)) THEN LAdd(q, <<1>>) ELSE q

\* a / 2^k to the nearest integer, a half to the even one.
RoundShift(a, k) == RoundedTo(Shr(a, k), a, k)

\* Rounding to 53 bits.
Fl(sg, a, x) ==
    IF LBits(a) <= 53 THEN [sg |-> sg, m |-> a, x |-> x]
    ELSE [sg |-> sg, m |-> RoundShift(a, LBits(a) - 53), x |-> x + LBits(a) - 53]

FZero == [sg |-> 1, m |-> <<>>, x |-> 0]

\* sa * am * 2^x + sb * bm * 2^x
FAddAligned(sa, am, sb, bm, x) ==
    IF sa = sb THEN Fl(sa, LAdd(am, bm), x)
    ELSE IF LLess(am, bm) THEN Fl(sb, LSub(bm, am), x)
    ELSE Fl(sa, LSub(am, bm), x)

FAdd(a, b) ==
    IF a.m = <<>> THEN b
    ELSE IF b.m = <<>> THEN a
    ELSE FAddAligned(a.sg, Shl(a.m, a.x - Min(a.x, b.x)),
                     b.sg, Shl(b.m, b.x - Min(a.x, b.x)), Min(a.x, b.x))

FSub(a, b) == FAdd(a, [b EXCEPT !.sg = -b.sg])

\* x * 100
FMul100(a) == Fl(a.sg, LMulFrom(a.m, 100, 0, 1), a.x)

\* One more bit of a division by d: p.q the bits so far, p.r what is left.
NextBit(p, d) ==
    IF 2 * p.r >= d THEN [q |-> 2 * p.q + 1, r |-> 2 * p.r - d]
    ELSE [q |-> 2 * p.q, r |-> 2 * p.r]

\* The next k bits of r / d after the point, for r < d, and what is left.
RECURSIVE FracBits(_, _, _)
FracBits(r, d, k) ==
    IF k = 0 THEN [q |-> 0, r |-> r] ELSE NextBit(FracBits(r, d, k - 1), d)

\* The next digits of r / d after the point, the most significant first,
\* and a last one that is 1 when something is left.
RECURSIVE FracDigits(_, _, _)
RECURSIVE FracDigitsAfter(_, _, _)
FracDigits(r, d, count) ==
    IF count = 0 THEN <<IF r = 0 THEN 0 ELSE 1>>
    ELSE FracDigitsAfter(FracBits(r, d, 15), d, count)

FracDigitsAfter(b, d, count) == <<b.q>> \o FracDigits(b.r, d, count - 1)

\* The float64 nearest to n / d: the whole part and 105 bits after the
\* point, rounded.
FromRatio(sg, n, d) ==
    Fl(sg, LTrim(Reverse(FracDigits(n % d, d, 7)) \o NatL(n \div d)), -120)

\* The float64 nearest to a decimal.
FromDec(dec) == FromRatio(IF dec.m < 0 THEN -1 ELSE 1, Abs(dec.m), Pow10(dec.e))

\* np.rint: to the nearest integer, a half to the even one.
Rint(a) ==
    IF a.x >= 0 THEN a.sg * LNat(Shl(a.m, a.x))
    ELSE a.sg * LNat(RoundShift(a.m, -a.x))

\* The 'sum' aggregate of a group as pandas adds it up, with Kahan's
\* compensation: y = val - compensation; t = sumx + y;
\* compensation = t - sumx - y; sumx = t.
RECURSIVE KahanSum(_, _, _)
RECURSIVE KahanAdd(_, _, _)
RECURSIVE KahanNext(_, _, _, _)
KahanSum(values, sumx, compensation) ==
    IF values = <<>> THEN sumx
    ELSE KahanAdd(Tail(values), sumx, FSub(FromDec(Head(values)), compensation))

KahanAdd(values, sumx, y) == KahanNext(values, sumx, y, FAdd(sumx, y))

KahanNext(values, sumx, y, t) == KahanSum(values, t, FSub(FSub(t, sumx), y))

-----------------------------------------------------------------------------
(* Aggregation *)

\* The amounts of some rows that are not missing, in the rows' order.
Amounts(rows) ==
    LET present == SelectSeq(rows, LAMBDA r : r.AMOUNT_IN_USD # <<>>)
    IN  [i \in 1..Len(present) |-> present[i].AMOUNT_IN_USD[1]]

RECURSIVE DecSum(_)
DecSum(values) ==
    IF values = <<>> THEN Dec(0, 0) ELSE DecAdd(Head(values), DecSum(Tail(values)))

\* The column as nansum hands it to numpy: float64 values, a missing one
\* put to 0 in its place.
AmountFloats(rows) ==
    [i \in 1..Len(rows) |->
        IF rows[i].AMOUNT_IN_USD = <<>> THEN FZero
        ELSE FromDec(rows[i].AMOUNT_IN_USD[1])]

\* res + a[i] + a[i + step] + ... up to a[last], added in that order.
RECURSIVE SumFrom(_, _, _, _, _)
SumFrom(a, res, i, step, last) ==
    IF i > last THEN res ELSE SumFrom(a, FAdd(res, a[i]), i + step, step, last)

\* One of the eight running sums of a block of n values after a[lo]: every
\* eighth value from a[lo + j] on, as far as the whole eights of n go.
Lane(a, lo, j, n) == SumFrom(a, a[lo + j], lo + j + 8, 8, lo + n - (n % 8))

\* Where a run of more than 128 values is split.
Half(n) == (n \div 2) - ((n \div 2) % 8)

\* numpy's pairwise sum of the n values after a[lo]: fewer than 8 are added
\* in order; up to 128 go into eight running sums that are added in pairs,
\* the values past the last whole eight then in order; a longer run is
\* split in two.
RECURSIVE PairwiseSum(_, _, _)
PairwiseSum(a, lo, n) ==
    IF n < 8 THEN SumFrom(a, FZero, lo + 1, 1, lo + n)
    ELSE IF n <= 128
    THEN SumFrom(a,
                 FAdd(FAdd(FAdd(Lane(a, lo, 1, n), Lane(a, lo, 2, n)),
                           FAdd(Lane(a, lo, 3, n), Lane(a, lo, 4, n))),
                      FAdd(FAdd(Lane(a, lo, 5, n), Lane(a, lo, 6, n)),
                           FAdd(Lane(a, lo, 7, n), Lane(a, lo, 8, n)))),
                 lo + n - (n % 8) + 1, 1, lo + n)
    ELSE FAdd(PairwiseSum(a, lo, Half(n)),
              PairwiseSum(a, lo + Half(n), n - Half(n)))

\* Series.sum(): the float64 that numpy's sum of the column gives, missing
\* values counting as 0; an empty sum is 0.
SumAmount(rows) == PairwiseSum(AmountFloats(rows), 0, Len(rows))

\* The 'count' aggregate of a column: its non-missing values.
CountAmount(rows) == Len(SelectSeq(rows, LAMBDA r : r.AMOUNT_IN_USD # <<>>))

\* .round(2) of the sum of some amounts, rint(x * 100) / 100 on the float64
\* sum x.  Off the halfway points x rounds as the decimal sum does; on one
\* it rounds as the float that stands for it.
Round2(values) ==
    IF DecSum(values).e <= 2 THEN DecSum(values)
    ELSE IF DecSum(values).e = 3 /\ DecSum(values).m % 10 = 5
    THEN Dec(Rint(FMul100(KahanSum(values, FZero, FZero))), 2)
    ELSE Dec((DecSum(values).m + Pow10(DecSum(values).e - 2) \div 2)
                \div Pow10(DecSum(values).e - 2), 2)


\* The keys of df.groupby(column): NaN keys are dropped.
GroupKeys(rows, column) == {rows[i][column] : i \in 1..Len(rows)} \ {NaN}

Group(rows, column, key) == SelectSeq(rows, LAMBDA r : Eq(r[column], key))

\* Series.nunique(): distinct non-missing values.
NUnique(rows, column) == Cardinality(GroupKeys(rows, column))

\* x.mode().iloc[0] if not x.mode().empty else 'N/A': the most frequent
\* non-missing value; Series.mode() returns the modes sorted.
TopProduct(rows) ==
    LET values == GroupKeys(rows, "PRODUCT_TYPE")
        freq(v) == Len(Group(rows, "PRODUCT_TYPE", v))
        modes == {v \in values : \A w \in values : freq(w) <= freq(v)}
    IN  IF modes = {} THEN "N/A" ELSE SortedFirst(modes)

\* show_monthly_overview, lines 168-175.
monthly_data(df) ==
    [m \in GroupKeys(df, "MONTH") |->
        LET g == Group(df, "MONTH", m)
        IN  [Total_Amount |-> Round2(Amounts(g)),
             Loan_Count |-> CountAmount(g),
             Unique_RMs |-> NUnique(g, "RM_Name")]]

\* show_branch_performance, lines 247 and 273-281.
branch_data(df, month) ==
    LET month_df == SelectSeq(df, LAMBDA r : Eq(r.MONTH, month))
    IN  [b \in GroupKeys(month_df, "Branch_Outlet") |->
            LET g == Group(month_df, "Branch_Outlet", b)
            IN  [Total_Amount |-> Round2(Amounts(g)),
                 Loan_Count |-> CountAmount(g),
                 RM_Count |-> NUnique(g, "RM_Name")]]

\* show_rm_performance, lines 330 and 339-347.
rm_data(df, branch) ==
    LET branch_df == SelectSeq(df, LAMBDA r : Eq(r.Branch_Outlet, branch))
    IN  [rm \in GroupKeys(branch_df, "RM_Name") |->
            LET g == Group(branch_df, "RM_Name", rm)
            IN  [Total_Amount |-> Round2(Amounts(g)),
                 Loan_Count |-> CountAmount(g),
                 Top_Product |-> TopProduct(g)]]

-----------------------------------------------------------------------------
(* The session *)

VARIABLES
    sheet,              \* the table load_data returns, the same on every run
    df,                 \* the table main builds from them in every run
    selected_quarter,   \* the sidebar's quarter select box
    selected_product,   \* the sidebar's product select box
    current_view,       \* st.session_state.current_view
    selected_month,     \* st.session_state.selected_month
    selected_branch,    \* st.session_state.selected_branch
    page,               \* what the last script run put on the screen
    clicks              \* the last two widgets used, oldest first, each
                        \* with the navigation state it was used in

vars == <<sheet, df, selected_quarter, selected_product, current_view,
          selected_month, selected_branch, page, clicks>>

\* The table the views get, lines 117-119.
filtered_df == ApplyFilters(df, selected_quarter, selected_product)

\* Python's truth value of a session key: None and '' are false.
Truthy(v) == v # None /\ v # ""

\* The view routing of main, lines 140-145, for the state the run ends in.
\* The RM view raises at line 350 (idxmax of an empty column) when rm_data
\* has no row; its Back button, line 333, is drawn before that.
Render(filtered, view, month, branch) ==
    IF view = "monthly"
    THEN [view |-> "monthly", status |-> "ok", table |-> monthly_data(filtered)]
    ELSE IF view = "branch"
    THEN [view |-> "branch", status |-> "ok", table |-> branch_data(filtered, month)]
    ELSE IF DOMAIN rm_data(filtered, branch) = {}
         THEN [view |-> "rm", status |-> "raised", table |-> <<>>]
         ELSE [view |-> "rm", status |-> "ok", table |-> rm_data(filtered, branch)]

\* One run of the script from its top with the given selections, ending in
\* the given navigation state; lines 86-88 stop it when there is no row.
Run(quarter, product, view, month, branch) ==
    IF Len(df) = 0
    THEN [view |-> "nodata", status |-> "ok", table |-> <<>>]
    ELSE Render(ApplyFilters(df, quarter, product), view, month, branch)

Nav == [current_view |-> current_view, selected_month |-> selected_month,
        selected_branch |-> selected_branch]

Logged(widget) ==
    LET entry == [widget |-> widget, nav |-> Nav]
    IN  clicks' = (IF clicks = <<>> THEN <<entry>> ELSE <<clicks[Len(clicks)], entry>>)

\* The widgets of main are drawn only when the table has rows.
Drawn == page.view # "nodata"

\* Session start, lines 63-68, and the first run: the quarter box shows the
\* first quarter in sorted order, the product box 'All'.
InitSession ==
    /\ df = Preprocess(sheet)
    /\ current_view = "monthly"
    /\ selected_month = None
    /\ selected_branch = None
    /\ selected_quarter = (IF Len(df) = 0 THEN None ELSE SortedFirst(Quarters(df)))
    /\ selected_product = "All"
    /\ page = Run(selected_quarter, selected_product, "monthly", None, None)
    /\ clicks = <<>>

\* The user picks another quarter, line 110; the run redraws the view.
SelectQuarter ==
    /\ Drawn
    /\ \E q \in Quarters(df) :
        /\ q # selected_quarter
        /\ selected_quarter' = q
        /\ page' = Run(q, selected_product, current_view, selected_month, selected_branch)
    /\ Logged("quarter")
    /\ UNCHANGED <<sheet, df, selected_product, current_view, selected_month, selected_branch>>

\* The user picks another product type, line 114.
SelectProduct ==
    /\ Drawn
    /\ \E p \in ProductTypes(df) :
        /\ p # selected_product
        /\ selected_product' = p
        /\ page' = Run(selected_quarter, p, current_view, selected_month, selected_branch)
    /\ Logged("product")
    /\ UNCHANGED <<sheet, df, selected_quarter, current_view, selected_month, selected_branch>>

\* Top bar, lines 124-127.
MonthlyOverviewButton ==
    /\ Drawn
    /\ current_view' = "monthly"
    /\ selected_month' = None
    /\ selected_branch' = None
    /\ page' = Run(selected_quarter, selected_product, "monthly", None, None)
    /\ Logged("monthly_overview")
    /\ UNCHANGED <<sheet, df, selected_quarter, selected_product>>

\* Line 130 without its test.
BranchGuardDropped(month) == TRUE

\* The guard of line 130.
BranchGuard(month) == Truthy(month)

\* Top bar, lines 129-131.
BranchPerformanceButton ==
    /\ Drawn
    /\ current_view' = (IF BranchGuard(selected_month) THEN "branch" ELSE current_view)
    /\ page' = Run(selected_quarter, selected_product, current_view', selected_month,
                   selected_branch)
    /\ Logged("branch_performance")
    /\ UNCHANGED <<sheet, df, selected_quarter, selected_product, selected_month,
                   selected_branch>>

\* Line 134 without its test.
RmGuardDropped(branch) == TRUE

\* The guard of line 134.
RmGuard(branch) == Truthy(branch)

\* Top bar, lines 133-135.
RmPerformanceButton ==
    /\ Drawn
    /\ current_view' = (IF RmGuard(selected_branch) THEN "rm" ELSE current_view)
    /\ page' = Run(selected_quarter, selected_product, current_view', selected_month,
                   selected_branch)
    /\ Logged("rm_performance")
    /\ UNCHANGED <<sheet, df, selected_quarter, selected_product, selected_month,
                   selected_branch>>

\* 'View Branches' of a row of the monthly table, lines 238-241, and the
\* run st.rerun() starts.
ViewBranches ==
    /\ page.view = "monthly"
    /\ \E m \in DOMAIN page.table :
        /\ current_view' = "branch"
        /\ selected_month' = m
        /\ page' = Run(selected_quarter, selected_product, "branch", m, selected_branch)
    /\ Logged("view_branches")
    /\ UNCHANGED <<sheet, df, selected_quarter, selected_product, selected_branch>>

\* 'View RMs' of a row of the branch table, lines 321-324.
ViewRMs ==
    /\ page.view = "branch"
    /\ \E b \in DOMAIN page.table :
        /\ current_view' = "rm"
        /\ selected_branch' = b
        /\ page' = Run(selected_quarter, selected_product, "rm", selected_month, b)
    /\ Logged("view_rms")
    /\ UNCHANGED <<sheet, df, selected_quarter, selected_product, selected_month>>

\* Lines 251-252 without the reset of selected_month.
BackToMonthlyKeepsMonth(nav) == [nav EXCEPT !.current_view = "monthly"]

\* What 'Back to Monthly Overview' writes, lines 251-252.
BackToMonthlyState(nav) ==
    [nav EXCEPT !.current_view = "monthly", !.selected_month = None]

\* 'Back to Monthly Overview', lines 250-253.
BackToMonthly ==
    /\ page.view = "branch"
    /\ current_view' = BackToMonthlyState(Nav).current_view
    /\ selected_month' = BackToMonthlyState(Nav).selected_month
    /\ selected_branch' = BackToMonthlyState(Nav).selected_branch
    /\ page' = Run(selected_quarter, selected_product, current_view', selected_month',
                   selected_branch')
    /\ Logged("back_to_monthly")
    /\ UNCHANGED <<sheet, df, selected_quarter, selected_product>>

\* Lines 334-335 resetting the month as well.
BackToBranchClearsMonth(nav) ==
    [nav EXCEPT !.current_view = "branch", !.selected_branch = None,
                !.selected_month = None]

\* What 'Back to Branch Performance' writes, lines 334-335.
BackToBranchState(nav) ==
    [nav EXCEPT !.current_view = "branch", !.selected_branch = None]

\* 'Back to Branch Performance', lines 333-336.
BackToBranch ==
    /\ page.view = "rm"
    /\ current_view' = BackToBranchState(Nav).current_view
    /\ selected_month' = BackToBranchState(Nav).selected_month
    /\ selected_branch' = BackToBranchState(Nav).selected_branch
    /\ page' = Run(selected_quarter, selected_product, current_view', selected_month',
                   selected_branch')
    /\ Logged("back_to_branch")
    /\ UNCHANGED <<sheet, df, selected_quarter, selected_product>>

Next ==
    \/ SelectQuarter
    \/ SelectProduct
    \/ MonthlyOverviewButton
    \/ BranchPerformanceButton
    \/ RmPerformanceButton
    \/ ViewBranches
    \/ ViewRMs
    \/ BackToMonthly
    \/ BackToBranch

-----------------------------------------------------------------------------
(* Sheets *)

\* Values of the Date column and cells of the amount column used by the
\* sheets below.
Mar01 == <<2024, 3, 1>>
Apr02 == <<2024, 4, 2>>
NaT == <<>>
Usd1000 == StrCell(<<"$", "1", ",", "0", "0", "0", ".", "0", "0">>)
Usd2000 == FloatCell(2000, 0)
Int500 == IntCell(500)
BadAmount == StrCell(<<"N", "/", "A">>)
\* '1.2345', four decimals
Fine == StrCell(<<"1", ".", "2", "3", "4", "5">>)
\* '1.245', halfway between two hundredths
Halfway == StrCell(<<"1", ".", "2", "4", "5">>)
\* U+0663 ARABIC-INDIC DIGIT THREE and '2'
ArabicIndic == StrCell(<<"#1635", "2">>)
\* 1e-05, a float whose str() is in exponent form
Tiny == FloatCell(1, 5)

Tables(rows) == UNION {[1..n -> rows] : n \in 0..MaxRows}

\* Sheets for the navigation: two months, two named branches and a blank
\* one, two quarters.
NavRow(date, branch, quarter) ==
    [Date |-> date, AMOUNT_IN_USD |-> Usd1000, Branch_Outlet |-> branch,
     RM_Name |-> "A", PRODUCT_TYPE |-> "Business", Quarter |-> quarter]

NavRows ==
    {NavRow(Mar01, "SRB", "Q1"), NavRow(Apr02, "SRB", "Q1"), NavRow(Mar01, "", "Q1"),
     NavRow(Mar01, "PNH", "Q2")}

Init == sheet \in Tables(NavRows) /\ InitSession

Spec == Init /\ [][Next]_vars

\* Sheets for the fills: each of the three filled columns named, blank or
\* missing.
FillRows ==
    [Date : {Mar01}, AMOUNT_IN_USD : {Usd1000}, Branch_Outlet : {"SRB", "", NaN},
     RM_Name : {"A"}, PRODUCT_TYPE : {"Business"}, Quarter : {"Q1"}]
    \cup
    [Date : {Mar01}, AMOUNT_IN_USD : {Usd1000}, Branch_Outlet : {"SRB"},
     RM_Name : {"", NaN}, PRODUCT_TYPE : {"Business"}, Quarter : {"Q1"}]
    \cup
    [Date : {Mar01}, AMOUNT_IN_USD : {Usd1000}, Branch_Outlet : {"SRB"},
     RM_Name : {"A"}, PRODUCT_TYPE : {"Business"}, Quarter : {"", NaN}]

InitFill == sheet \in Tables(FillRows) /\ InitSession

SpecFill == InitFill /\ [][Next]_vars

\* Sheets for the monthly summary: dates read and not read, amounts as
\* currency text, as numbers, unreadable and missing, with more than two
\* decimals and with a digit outside ASCII.
MonthlyRows ==
    [Date : {Mar01, NaT},
     AMOUNT_IN_USD : {Usd1000, Usd2000, BadAmount, NanCell},
     Branch_Outlet : {"SRB"}, RM_Name : {"A"}, PRODUCT_TYPE : {"Business"},
     Quarter : {"Q1"}]
    \cup
    [Date : {Apr02},
     AMOUNT_IN_USD : {Usd1000, Int500, Fine, Halfway, ArabicIndic, Tiny},
     Branch_Outlet : {"SRB"}, RM_Name : {"A"}, PRODUCT_TYPE : {"Business"},
     Quarter : {"Q1"}]
    \cup
    [Date : {Mar01}, AMOUNT_IN_USD : {Usd1000}, Branch_Outlet : {"SRB"},
     RM_Name : {"B"}, PRODUCT_TYPE : {"Personal"}, Quarter : {"Q1", "Q2"}]

InitMonthly == sheet \in Tables(MonthlyRows) /\ InitSession

SpecMonthly == InitMonthly /\ [][Next]_vars

\* Sheets for the RM summary: one branch and month, product types in either
\* order or missing.
RmRows ==
    [Date : {Mar01}, AMOUNT_IN_USD : {Usd1000}, Branch_Outlet : {"SRB"},
     RM_Name : {"A", "B"}, PRODUCT_TYPE : {"Business", "Personal", NaN},
     Quarter : {"Q1"}]
    \cup
    [Date : {Mar01}, AMOUNT_IN_USD : {Usd1000}, Branch_Outlet : {"SRB"},
     RM_Name : {"A"}, PRODUCT_TYPE : {"Business"}, Quarter : {"Q2"}]

InitRm == sheet \in Tables(RmRows) /\ InitSession

SpecRm == InitRm /\ [][Next]_vars

-----------------------------------------------------------------------------
(* Properties of the navigation *)

\* The newest entry of the click log, and whether there is one.
LastClick == clicks[Len(clicks)]

Used(widget) == clicks # <<>> /\ LastClick.widget = widget

\* C1: whenever the branch or the RM view is the current one, a month is
\* selected.
C1_DeeperViewHasMonth ==
    current_view \in {"branch", "rm"} => selected_month # None

\* C2: whenever the RM view is the current one, a branch is selected.
C2_RmViewHasBranch ==
    current_view = "rm" => selected_branch # None

\* The RM view entered from the top bar.
C2_Witness ==
    /\ Used("rm_performance")
    /\ LastClick.nav.current_view = "branch"
    /\ current_view = "rm"

\* C3: 'Branch Performance' pressed with no month selected, and 'RM
\* Performance' pressed with no branch selected, leave the view, the month
\* and the branch as they were.
C3_RefusedWithoutScope ==
    /\ (Used("branch_performance") /\ LastClick.nav.selected_month = None)
            => Nav = LastClick.nav
    /\ (Used("rm_performance") /\ LastClick.nav.selected_branch = None)
            => Nav = LastClick.nav

\* 'RM Performance' pressed in the branch view before any branch was chosen.
C3_Witness ==
    /\ Used("rm_performance")
    /\ LastClick.nav.selected_branch = None
    /\ LastClick.nav.current_view = "branch"

\* C4: 'Back to Branch Performance' leaves the RM view for the branch view,
\* clears the branch and keeps the month; 'Back to Monthly Overview' leaves
\* the branch view for the monthly view, clears the month and keeps the
\* branch key.
C4_BackClearsOwnKey ==
    /\ Used("back_to_branch") =>
            /\ LastClick.nav.current_view = "rm"
            /\ current_view = "branch"
            /\ selected_branch = None
            /\ selected_month = LastClick.nav.selected_month
    /\ Used("back_to_monthly") =>
            /\ LastClick.nav.current_view = "branch"
            /\ current_view = "monthly"
            /\ selected_month = None
            /\ selected_branch = LastClick.nav.selected_branch

\* Back from an RM view that had both keys set.
C4_Witness ==
    /\ Used("back_to_branch")
    /\ LastClick.nav.selected_month # None
    /\ LastClick.nav.selected_branch # None

\* 'View Branches' followed at once by 'Back to Monthly Overview'.
RoundTrip ==
    /\ Len(clicks) = 2
    /\ clicks[1].widget = "view_branches"
    /\ clicks[2].widget = "back_to_monthly"

\* C5: a month chosen in the monthly view and then left with 'Back to
\* Monthly Overview' gives the monthly view with no month, the navigation
\* state the month was chosen in.
C5_SelectThenBack ==
    RoundTrip =>
        /\ clicks[1].nav.current_view = "monthly"
        /\ current_view = "monthly"
        /\ selected_month = None
        /\ Nav = clicks[1].nav

\* The round trip started from a monthly view that still held a branch key.
C5_Witness == RoundTrip /\ clicks[1].nav.selected_branch # None

\* The records that reach the view on the screen.
ViewRecords ==
    IF page.view = "monthly" THEN filtered_df
    ELSE IF page.view = "branch"
    THEN SelectSeq(filtered_df, LAMBDA r : Eq(r.MONTH, selected_month))
    ELSE SelectSeq(filtered_df, LAMBDA r : Eq(r.Branch_Outlet, selected_branch))

\* C6: a view that no record reaches is drawn without an error.
C6_EmptyViewRenders ==
    (page.view \in {"monthly", "branch", "rm"} /\ ViewRecords = <<>>)
        => page.status = "ok"

-----------------------------------------------------------------------------
(* Properties of the cleaning and the summaries *)

RECURSIVE SumTotals(_, _)
SumTotals(table, keys) ==
    IF keys = {} THEN Dec(0, 0)
    ELSE LET k == CHOOSE x \in keys : TRUE
         IN  DecAdd(table[k].Total_Amount, SumTotals(table, keys \ {k}))

\* |a - b| for two signed naturals.
Gap(sa, a, sb, b) ==
    IF sa # sb THEN LAdd(a, b)
    ELSE IF LLess(a, b) THEN LSub(b, a) ELSE LSub(a, b)

\* A million times what the month groups' total differs by from the total
\* of the whole table, counted in units of 2^u, for u <= 0 and u <= whole.x.
Lost(total, whole, u) ==
    Gap(IF total.m < 0 THEN -1 ELSE 1,
        Shl(LMulFrom(NatL(Abs(total.m) * Pow10(2 - total.e)), 10000, 0, 1), -u),
        whole.sg,
        LMulFrom(LMulFrom(Shl(whole.m, whole.x - u), 1000, 0, 1), 1000, 0, 1))

\* The difference is at most half a hundredth for each group, and a
\* millionth more for the float64 arithmetic of the sums and of round(2).
Conserved(total, whole, groups) ==
    ~LLess(Shl(NatL(5001 * groups), -Min(whole.x, 0)),
           Lost(total, whole, Min(whole.x, 0)))

\* C7: the month groups' 'Total Amount' add up to the sum of 'AMOUNT IN USD'
\* over the whole filtered table, whenever that table has rows, within the
\* tolerance of Conserved.
C7_MonthlyTotalsConserved ==
    (page.view = "monthly" /\ filtered_df # <<>>)
        => Conserved(SumTotals(page.table, DOMAIN page.table),
                     SumAmount(filtered_df), Cardinality(DOMAIN page.table))

Blank(v) == v = "" \/ v = NaN

\* C8: a row whose branch, RM name or quarter is blank or missing in the
\* sheet has "Unknown" there after the preprocessing.
C8_BlankBecomesUnknown ==
    \A i \in 1..Len(sheet) :
        /\ Blank(sheet[i].Branch_Outlet) => df[i].Branch_Outlet = "Unknown"
        /\ Blank(sheet[i].RM_Name) => df[i].RM_Name = "Unknown"
        /\ Blank(sheet[i].Quarter) => df[i].Quarter = "Unknown"

\* The most frequent product types of some rows, and the one of them that
\* comes first in the rows' order.
Modes(rows) ==
    LET values == GroupKeys(rows, "PRODUCT_TYPE")
    IN  {v \in values : \A w \in values :
            Len(Group(rows, "PRODUCT_TYPE", w)) <= Len(Group(rows, "PRODUCT_TYPE", v))}

FirstInOrder(rows, values) ==
    rows[CHOOSE i \in 1..Len(rows) :
            /\ rows[i].PRODUCT_TYPE \in values
            /\ \A j \in 1..(i - 1) : rows[j].PRODUCT_TYPE \notin values].PRODUCT_TYPE

\* C9: in the RM table, a group in which two product types are equally and
\* most frequent shows as 'Top Product' the one that comes first in the
\* rows' order.
C9_TieGoesToFirstRow ==
    (page.view = "rm" /\ page.status = "ok") =>
        \A rm \in DOMAIN page.table :
            LET g == Group(ViewRecords, "RM_Name", rm)
            IN  Cardinality(Modes(g)) >= 2
                    => page.table[rm].Top_Product = FirstInOrder(g, Modes(g))

\* C10: in the monthly table, 'Loan Count' of a month is the number of rows
\* of the filtered table with that month label, rows without an amount
\* included.
C10_LoanCountCountsRows ==
    page.view = "monthly" =>
        \A m \in DOMAIN page.table :
            page.table[m].Loan_Count = Len(Group(filtered_df, "MONTH", m))

====
